---- MODULE Spec2Model ----
(***************************************************************************)
(* Model of database.py: the delimited-text adapter (TextInterface), the   *)
(* relational adapter (MySQLDatabaseInterface), the spreadsheet adapter    *)
(* (GoogleSpreadsheetInterface), DatabaseError and DatabaseFactory.        *)
(*                                                                         *)
(* Python strings are sequences of symbols.  A symbol is a one-character   *)
(* string ("a", ",", "\n"); the fixed pieces of a format template are kept *)
(* as one symbol each ("INSERT INTO ").  Concatenation is \o.              *)
(***************************************************************************)
EXTENDS Integers, Sequences, FiniteSets, TLC

VARIABLES
    py,         \* major version of the interpreter that runs the module: 2 or 3
    fs,         \* the file system: path -> [exists, content]
    text,       \* the TextInterface the caller constructed directly
    made,       \* the adapter the last DatabaseFactory call returned
    lastWrite,  \* the most recent TextInterface.write call (history)
    pending,    \* statements executed in the open transaction, not committed
    committed,  \* statements made durable by a commit
    calls,      \* the driver calls the last relational call issued, in order
    gs,         \* the GoogleSpreadsheetInterface construction outcome
    last        \* the last call of the API: its arguments and its outcome

vars == <<py, fs, text, made, lastWrite, pending, committed, calls, gs, last>>

textVars == <<fs, text, made, lastWrite>>
sqlVars == <<pending, committed, calls>>

(***************************************************************************)
(* Bounds.                                                                 *)
(***************************************************************************)
MaxRows == 2
MaxDb == 2

(***************************************************************************)
(* String primitives of Python, as the code uses them.                     *)
(***************************************************************************)
\* str.endswith
EndsWith(s, suf) ==
    /\ Len(suf) <= Len(s)
    /\ SubSeq(s, Len(s) - Len(suf) + 1, Len(s)) = suf

\* str.startswith at a position: does sub occur in s at index i
OccursAt(s, sub, i) ==
    /\ i >= 1
    /\ i + Len(sub) - 1 <= Len(s)
    /\ SubSeq(s, i, i + Len(sub) - 1) = sub

\* the `in` operator on strings
Contains(s, sub) == \E i \in 1..(Len(s) + 1) : OccursAt(s, sub, i)

\* str.strip(chars): drops leading and trailing symbols that are in chars
RECURSIVE LStrip(_, _)
LStrip(s, chars) ==
    IF s # <<>> /\ Head(s) \in chars THEN LStrip(Tail(s), chars) ELSE s

RECURSIVE RStrip(_, _)
RStrip(s, chars) ==
    IF s # <<>> /\ s[Len(s)] \in chars
    THEN RStrip(SubSeq(s, 1, Len(s) - 1), chars)
    ELSE s

Strip(s, chars) == RStrip(LStrip(s, chars), chars)

\* str.split(sep) for a non-empty sep: leftmost, non-overlapping occurrences
RECURSIVE Split(_, _)
Split(s, sep) ==
    IF \E i \in 1..Len(s) : OccursAt(s, sep, i)
    THEN LET i == CHOOSE k \in 1..Len(s) :
                      /\ OccursAt(s, sep, k)
                      /\ \A j \in 1..(k - 1) : ~OccursAt(s, sep, j)
         IN  <<SubSeq(s, 1, i - 1)>> \o Split(SubSeq(s, i + Len(sep), Len(s)), sep)
    ELSE <<s>>

\* str.join over a sequence of strings
RECURSIVE Join(_, _)
Join(parts, sep) ==
    IF parts = <<>> THEN <<>>
    ELSE IF Len(parts) = 1 THEN parts[1]
    ELSE parts[1] \o sep \o Join(Tail(parts), sep)

\* str.replace(old, new) for a one-symbol old
RECURSIVE Replace(_, _, _)
Replace(s, old, new) ==
    IF s = <<>> THEN <<>>
    ELSE (IF Head(s) = old THEN new ELSE <<Head(s)>>) \o Replace(Tail(s), old, new)

\* str.lower on one symbol, then on a string
UpperCase == <<"A", "B", "C", "D", "E", "F", "G", "H", "I", "J", "K", "L", "M",
               "N", "O", "P", "Q", "R", "S", "T", "U", "V", "W", "X", "Y", "Z">>
LowerCase == <<"a", "b", "c", "d", "e", "f", "g", "h", "i", "j", "k", "l", "m",
               "n", "o", "p", "q", "r", "s", "t", "u", "v", "w", "x", "y", "z">>

LowerChar(c) ==
    IF \E i \in 1..26 : UpperCase[i] = c
    THEN LowerCase[CHOOSE i \in 1..26 : UpperCase[i] = c]
    ELSE c

Lower(s) == [i \in 1..Len(s) |-> LowerChar(s[i])]

(***************************************************************************)
(* Text-mode file reading.                                                 *)
(***************************************************************************)
\* Python 3 opens text files with universal newlines: "\r\n" and a lone
\* "\r" are read as "\n".  Python 2 mode 'r' hands the bytes over unchanged.
RECURSIVE UniversalNewlines(_)
UniversalNewlines(c) ==
    IF c = <<>> THEN <<>>
    ELSE IF Head(c) = "\r"
         THEN IF Len(c) >= 2 /\ c[2] = "\n"
              THEN <<"\n">> \o UniversalNewlines(Tail(Tail(c)))
              ELSE <<"\n">> \o UniversalNewlines(Tail(c))
         ELSE <<Head(c)>> \o UniversalNewlines(Tail(c))

Decoded(c) == IF py = 3 THEN UniversalNewlines(c) ELSE c

\* `for line in infile`: each line keeps its "\n"; a last line without one
\* is a line too; an empty file has no line
RECURSIVE Lines(_)
Lines(c) ==
    IF c = <<>> THEN <<>>
    ELSE IF \E i \in 1..Len(c) : c[i] = "\n"
         THEN LET i == CHOOSE k \in 1..Len(c) :
                           c[k] = "\n" /\ \A j \in 1..(k - 1) : c[j] # "\n"
              IN  <<SubSeq(c, 1, i)>> \o Lines(SubSeq(c, i + 1, Len(c)))
         ELSE <<c>>

(***************************************************************************)
(* Values the calls are made with.                                         *)
(***************************************************************************)
OutCsv == <<"o", "u", "t", ".", "c", "s", "v">>
DataCsv == <<"d", "a", "t", "a", ".", "c", "s", "v">>
OutTsv == <<"o", ".", "t", "s", "v">>
OutTxt == <<"o", ".", "t", "x", "t">>
FileNames == {OutCsv, OutTsv, OutTxt}

DotCsv == <<".", "c", "s", "v">>
DotTsv == <<".", "t", "s", "v">>
Comma == <<",">>
Tab == <<"\t">>
Space == <<" ">>
Semicolon == <<";">>
Separators == {Space, Comma, Tab, Semicolon, <<>>}

\* tables of string fields
TableAB == << << <<"a">>, <<"1">> >>, << <<"b">>, <<"2">> >> >>
TableWide == << << <<"a", "b">>, <<"1">>, <<"2">> >> >>

\* file contents
ContentAB == <<"a", ",", "1", "\n", "b", ",", "2">>
ContentTabs == <<"a", "\t", "1", "\r", "\n", "b", " ", "2", "\n">>

\* the data argument of write: a list of rows, a string, or a number
ListData(rows) == [kind |-> "list", s |-> <<>>, rows |-> rows]
StrData(s) == [kind |-> "str", s |-> s, rows |-> <<>>]
IntData == [kind |-> "int", s |-> <<>>, rows |-> <<>>]
WriteData ==
    {ListData(TableAB), ListData(TableWide), ListData(<<>>),
     StrData(ContentAB), StrData(<<>>), IntData}

NoFile == [exists |-> FALSE, content |-> <<>>]
File(c) == [exists |-> TRUE, content |-> c]
InitialFiles == {NoFile, File(ContentAB), File(ContentTabs)}

\* an adapter object: bound to a path, or to a value that is not a string
NoAdapter == [bound |-> FALSE, isPath |-> FALSE, file |-> <<>>]
PathAdapter(f) == [bound |-> TRUE, isPath |-> TRUE, file |-> f]
FileTypeAdapter == [bound |-> TRUE, isPath |-> FALSE, file |-> <<>>]

NoWrite == [done |-> FALSE, file |-> <<>>, data |-> IntData, sep |-> <<>>, exc |-> ""]

\* the record of a call; every call fills the fields it has
NoCall ==
    [op |-> "", exc |-> "", msg |-> <<>>, returned |-> "",
     file |-> <<>>, data |-> IntData, sep |-> <<>>, result |-> <<>>,
     before |-> NoFile,
     tag |-> <<>>, kwfile |-> <<>>,
     stmt |-> <<>>, table |-> <<>>, rows |-> <<>>,
     failAt |-> 0, commitOk |-> TRUE,
     title |-> "", sheet |-> 0, loginOk |-> TRUE]

(***************************************************************************)
(* TextInterface                                                           *)
(***************************************************************************)
\* the suffix test both read and write make on self.file
SuffixSeparator(file, seperator) ==
    IF EndsWith(file, DotCsv) THEN Comma
    ELSE IF EndsWith(file, DotTsv) THEN Tab
    ELSE seperator

\* [ tuple( line.strip("\r\n\t").split(seperator) ) for line in infile ]
ReadRows(content, seperator) ==
    LET ls == Lines(Decoded(content))
    IN  [i \in 1..Len(ls) |-> Split(Strip(ls[i], {"\r", "\n", "\t"}), seperator)]

\* TextInterface.read on adapter a
TextReadOn(a, seperator) ==
    /\ a.bound
    /\ LET base == [NoCall EXCEPT !.op = "TextRead", !.file = a.file, !.sep = seperator]
           sep == SuffixSeparator(a.file, seperator)
       IN  last' =
             IF ~a.isPath
             THEN [base EXCEPT !.exc = "TypeError"]
             ELSE IF ~fs[a.file].exists
             THEN [base EXCEPT !.exc = "IOError"]
             ELSE IF sep = <<>> /\ Lines(Decoded(fs[a.file].content)) # <<>>
             THEN [base EXCEPT !.exc = "ValueError"]
             ELSE [base EXCEPT !.returned = "rows",
                               !.result = ReadRows(fs[a.file].content, sep)]
    /\ UNCHANGED <<py, textVars, sqlVars, gs>>

TextRead == \E a \in {text, made}, seperator \in Separators : TextReadOn(a, seperator)

\* hasattr( data, "__iter__" ): lists have it; str has it in Python 3 only
HasIter(data) == data.kind = "list" \/ (data.kind = "str" /\ py = 3)

\* len(data) for data[0]
DataLen(data) == IF data.kind = "list" THEN Len(data.rows) ELSE Len(data.s)

\* `if type(data[0] == str)`: the comparison yields a bool, type() of it is
\* the class bool, and a class is true
FirstIsStr(data) == TRUE

\* "\n".join( seperator.join( str(i) for i in entry ) for entry in data )
Render(rows, seperator) ==
    Join([i \in 1..Len(rows) |-> Join(rows[i], seperator)], <<"\n">>)

\* (variant: the file opened in mode 'a', which keeps what it holds)
OpenForAppend(old) == old

\* what open( self.file, 'w' ) leaves in the file before anything is written
OpenForWrite(old) == <<>>

\* TextInterface.write on adapter a; openOk is whether the OS opens the file
TextWriteOn(a, data, seperator, openOk) ==
    /\ a.bound
    /\ LET base == [NoCall EXCEPT !.op = "TextWrite", !.file = a.file,
                                  !.data = data, !.sep = seperator,
                                  !.before = IF a.isPath THEN fs[a.file] ELSE NoFile]
           sep == SuffixSeparator(a.file, seperator)
           opened == OpenForWrite(fs[a.file].content)
           exc == IF ~HasIter(data) THEN "AssertionError"
                  ELSE IF ~a.isPath THEN "TypeError"
                  ELSE IF ~openOk THEN "IOError"
                  ELSE IF DataLen(data) = 0 THEN "IndexError"
                  ELSE IF FirstIsStr(data)
                       THEN IF data.kind = "str" THEN "" ELSE "TypeError"
                       ELSE ""
           reachedOpen == HasIter(data) /\ a.isPath /\ openOk
           written == IF exc # "" THEN <<>>
                      ELSE IF FirstIsStr(data) THEN data.s
                      ELSE Render(data.rows, sep)
       IN  /\ last' = [base EXCEPT !.exc = exc,
                                   !.returned = IF reachedOpen THEN "opened" ELSE ""]
           /\ fs' = IF reachedOpen
                    THEN [fs EXCEPT ![a.file] = File(opened \o written)]
                    ELSE fs
           /\ lastWrite' = IF a.isPath
                           THEN [done |-> TRUE, file |-> a.file, data |-> data,
                                 sep |-> seperator, exc |-> exc]
                           ELSE lastWrite
    /\ UNCHANGED <<py, text, made, sqlVars, gs>>

TextWrite ==
    \E a \in {text, made}, data \in WriteData, seperator \in Separators, openOk \in BOOLEAN :
        TextWriteOn(a, data, seperator, openOk)

(***************************************************************************)
(* DatabaseFactory                                                         *)
(***************************************************************************)
SQL_TYPES == {<<"m", "y", "s", "q", "l">>, <<"p", "o", "s", "t", "g", "r", "e", "s", "q", "l">>, <<"s", "q", "l", "i", "t", "e">>}
TEXT_TABLE_TYPES == {<<"e", "x", "c", "e", "l">>, <<"t", "e", "x", "t">>, <<"c", "s", "v">>}
GOOGLE_SPREADSHEET_TYPES == {<<"g", "o", "o", "g", "l", "e">>}
MySqlTag == <<"m", "y", "s", "q", "l">>

\* the type tags the factory is called with
TypeTags ==
    {<<"c", "s", "v">>,
     <<"C", "S", "V">>,
     <<"C", "s", "v">>,
     <<"t", "e", "x", "t">>,
     <<"E", "x", "c", "e", "l">>,
     <<"g", "o", "o", "g", "l", "e">>,
     <<"G", "o", "o", "g", "l", "e">>,
     <<"m", "y", "s", "q", "l">>,
     <<"M", "y", "S", "Q", "L">>,
     <<"m", "o", "n", "g", "o">>,
     <<"p", "o", "s", "t", "g", "r", "e", "s", "q", "l">>,
     <<"s", "q", "l", "i", "t", "e">>,
     <<"T", "E", "X", "T">>, <<"S", "Q", "L", "i", "t", "e">>}

\* the value of the caller's file= keyword: absent (<<>>) or a path
KwFiles == {<<>>, DataCsv, OutTxt}

\* (variant: the last test written as `in SQL_TYPES`)
FactoryBranchSqlTypes(db_type) ==
    IF Lower(db_type) \in GOOGLE_SPREADSHEET_TYPES THEN "google"
    ELSE IF Lower(db_type) \in TEXT_TABLE_TYPES THEN "text"
    ELSE IF Lower(db_type) \in SQL_TYPES THEN "mysql"
    ELSE "none"

\* the chain of `if`s of the factory: which constructor call is reached
FactoryBranch(db_type) ==
    IF Lower(db_type) \in GOOGLE_SPREADSHEET_TYPES THEN "google"
    ELSE IF Lower(db_type) \in TEXT_TABLE_TYPES THEN "text"
    ELSE IF Lower(db_type) = MySqlTag THEN "mysql"
    ELSE "none"

\* The constructor calls read the bare names title, email, ..., file, db, ...
\* which the function never binds (the keywords stay inside kwargs).  The
\* only one that resolves is `file`, a builtin type of Python 2.
NameResolves(name) == name = "file" /\ py = 2

\* DatabaseFactory( db_type, **kwargs )
DatabaseFactory(db_type, kwfile) ==
    LET base == [NoCall EXCEPT !.op = "Factory", !.tag = db_type, !.kwfile = kwfile]
        branch == FactoryBranch(db_type)
    IN  /\ last' =
             IF branch = "google" THEN
                 IF NameResolves("title") THEN [base EXCEPT !.returned = "GoogleSpreadsheetInterface"]
                 ELSE [base EXCEPT !.exc = "NameError"]
             ELSE IF branch = "text" THEN
                 IF NameResolves("file") THEN [base EXCEPT !.returned = "TextInterface"]
                 ELSE [base EXCEPT !.exc = "NameError"]
             ELSE IF branch = "mysql" THEN
                 IF NameResolves("db") THEN [base EXCEPT !.returned = "MySQLDatabaseInterface"]
                 ELSE [base EXCEPT !.exc = "NameError"]
             ELSE [base EXCEPT !.returned = "None"]
        /\ made' =
             IF branch = "text" /\ NameResolves("file") THEN FileTypeAdapter
             ELSE IF branch = "none" THEN NoAdapter
             ELSE made
        /\ UNCHANGED <<py, fs, text, lastWrite, sqlVars, gs>>

Factory == \E db_type \in TypeTags, kwfile \in KwFiles : DatabaseFactory(db_type, kwfile)

(***************************************************************************)
(* MySQLDatabaseInterface                                                  *)
(***************************************************************************)
\* the fields of a row handed to insert: a str, an int or None
StrItem(s) == [t |-> "str", s |-> s, n |-> 0]
IntItem(n) == [t |-> "int", s |-> <<>>, n |-> n]
NoneItem == [t |-> "none", s |-> <<>>, n |-> 0]

RowQuote == <<StrItem(<<"a", "\"", "b">>), IntItem(7)>>
RowZero == <<IntItem(0), StrItem(<<"c">>)>>
RowEmpty == <<StrItem(<<>>), NoneItem, IntItem(-12)>>
RowSlash == <<StrItem(<<"\\", "\"">>)>>
SqlRows == {RowQuote, RowZero, RowEmpty, RowSlash}

\* the row sequences handed to insert: up to MaxRows rows
RowSeqs == UNION {[1..n -> SqlRows] : n \in 0..MaxRows}

TableNames == {<<"t">>}
Statements == {<<"DELETE FROM t">>, <<"UPDATE t SET x=", "1">>}

\* decimal digits of a natural number, then '{}'.format of an int
DigitChars == <<"0", "1", "2", "3", "4", "5", "6", "7", "8", "9">>

RECURSIVE Digits(_)
Digits(n) ==
    IF n < 10 THEN <<DigitChars[n + 1]>>
    ELSE Digits(n \div 10) \o <<DigitChars[(n % 10) + 1]>>

Decimal(n) == IF n < 0 THEN <<"-">> \o Digits(0 - n) ELSE Digits(n)

\* str(item) and '{}'.format( item )
Str(item) ==
    IF item.t = "str" THEN item.s
    ELSE IF item.t = "int" THEN Decimal(item.n)
    ELSE <<"N", "o", "n", "e">>

\* `not item`: the empty string, the number 0 and None are false
Falsy(item) ==
    \/ item.t = "none"
    \/ item.t = "str" /\ item.s = <<>>
    \/ item.t = "int" /\ item.n = 0

\* `isinstance( item, str ) or not item`
QuotedBranch(item) == item.t = "str" \/ Falsy(item)

\* str(item).replace('"', '""').replace( "\\", "\\\\")
Escaped(s) == Replace(Replace(s, "\"", <<"\"", "\"">>), "\\", <<"\\", "\\">>)

\* one element of the list _build_insert joins
Literal(item) ==
    IF QuotedBranch(item)
    THEN <<"\"">> \o Escaped(Str(item)) \o <<"\"">>
    ELSE Str(item)

\* MySQLDatabaseInterface._build_insert
BuildInsert(row) == Join([i \in 1..Len(row) |-> Literal(row[i])], <<",">>)

\* 'INSERT INTO {table} VALUES ( {vals} )'.format(...)
InsertStatement(table, row) ==
    <<"INSERT INTO ">> \o table \o <<" VALUES ( ">> \o BuildInsert(row) \o <<" )">>

\* repr of a row, as '{row}'.format puts it in the message
ReprItem(item) ==
    IF item.t = "str"
    THEN <<"'">> \o Replace(item.s, "\\", <<"\\", "\\">>) \o <<"'">>
    ELSE Str(item)

ReprRow(row) ==
    <<"(">> \o Join([i \in 1..Len(row) |-> ReprItem(row[i])], <<",", " ">>)
            \o (IF Len(row) = 1 THEN <<",">> ELSE <<>>) \o <<")">>

ExecuteMessage(statement) ==
    <<"MySQL Error: Unable to execute statement '">> \o statement \o <<"'">>

InsertMessage(row, table) ==
    <<"MySQL Error: Unable to add row (">> \o ReprRow(row)
        \o <<") to table (">> \o table \o <<")">>

\* a call made on the driver: cursor.execute( stmt ) or db.commit()
ExecuteCall(stmt, ok) == [call |-> "execute", stmt |-> stmt, ok |-> ok]
CommitCall(ok) == [call |-> "commit", stmt |-> <<>>, ok |-> ok]

\* The driver: a statement that executes joins the open transaction, a
\* commit that succeeds makes the open transaction durable.  A call that
\* raises changes nothing.
RECURSIVE Driver(_, _, _)
Driver(cs, pend, comm) ==
    IF cs = <<>> THEN [pending |-> pend, committed |-> comm]
    ELSE LET c == Head(cs)
         IN  IF ~c.ok THEN Driver(Tail(cs), pend, comm)
             ELSE IF c.call = "execute" THEN Driver(Tail(cs), Append(pend, c.stmt), comm)
             ELSE Driver(Tail(cs), <<>>, comm \o pend)

\* the number of statements the database holds
DbSize == Len(pending) + Len(committed)

\* (variant: the commit placed in a `finally`, so that it follows a failure too)
ExecuteCallsCommitAlways(statement, ok, commitOk) ==
    <<ExecuteCall(statement, ok), CommitCall(commitOk)>>

\* the driver calls of execute: the statement, and a commit after the try
ExecuteCalls(statement, ok, commitOk) ==
    IF ok THEN <<ExecuteCall(statement, TRUE), CommitCall(commitOk)>>
    ELSE <<ExecuteCall(statement, FALSE)>>

\* MySQLDatabaseInterface.execute
SqlExecute(statement, ok, commitOk) ==
    /\ DbSize < MaxDb
    /\ LET cs == ExecuteCalls(statement, ok, commitOk)
           db == Driver(cs, pending, committed)
       IN  /\ calls' = cs
           /\ pending' = db.pending
           /\ committed' = db.committed
           /\ last' = [NoCall EXCEPT
                         !.op = "execute", !.stmt = statement,
                         !.failAt = IF ok THEN 0 ELSE 1, !.commitOk = commitOk,
                         !.exc = IF ~ok THEN "DatabaseError"
                                 ELSE IF ~commitOk THEN "OperationalError"
                                 ELSE "",
                         !.msg = IF ~ok THEN ExecuteMessage(statement) ELSE <<>>]
    /\ UNCHANGED <<py, textVars, gs>>

Execute == \E statement \in Statements, ok \in BOOLEAN, commitOk \in BOOLEAN :
               SqlExecute(statement, ok, commitOk)

\* MySQLDatabaseInterface.read: execute, then fetchall; nothing is committed
SqlRead(statement, ok) ==
    /\ DbSize < MaxDb
    /\ LET cs == <<ExecuteCall(statement, ok)>>
           db == Driver(cs, pending, committed)
       IN  /\ calls' = cs
           /\ pending' = db.pending
           /\ committed' = db.committed
           /\ last' = [NoCall EXCEPT
                         !.op = "read", !.stmt = statement,
                         !.failAt = IF ok THEN 0 ELSE 1,
                         !.returned = IF ok THEN "rows" ELSE "",
                         !.exc = IF ok THEN "" ELSE "DatabaseError",
                         !.msg = IF ok THEN <<>> ELSE ExecuteMessage(statement)]
    /\ UNCHANGED <<py, textVars, gs>>

Read == \E statement \in Statements, ok \in BOOLEAN : SqlRead(statement, ok)

\* (variant: db.commit() indented into the loop, one commit per row)
RECURSIVE PerRow(_, _, _, _, _)
PerRow(table, data, failAt, commitOk, i) ==
    IF i > Len(data) THEN <<>>
    ELSE IF i = failAt THEN <<ExecuteCall(InsertStatement(table, data[i]), FALSE)>>
    ELSE <<ExecuteCall(InsertStatement(table, data[i]), TRUE), CommitCall(commitOk)>>
             \o (IF commitOk THEN PerRow(table, data, failAt, commitOk, i + 1) ELSE <<>>)

InsertCallsCommitPerRow(table, data, failAt, commitOk) ==
    PerRow(table, data, failAt, commitOk, 1)

\* (variant: db.commit() placed in a `finally`, so that it follows a failure too)
InsertCallsCommitAlways(table, data, failAt, commitOk) ==
    IF failAt = 0
    THEN [i \in 1..Len(data) |-> ExecuteCall(InsertStatement(table, data[i]), TRUE)]
             \o <<CommitCall(commitOk)>>
    ELSE [i \in 1..failAt |-> ExecuteCall(InsertStatement(table, data[i]), i < failAt)]
             \o <<CommitCall(commitOk)>>

\* The driver calls of insert.  failAt = 0: every execute succeeds;
\* failAt = k: the execute of row k raises, which leaves the loop.
InsertCalls(table, data, failAt, commitOk) ==
    IF failAt = 0
    THEN [i \in 1..Len(data) |-> ExecuteCall(InsertStatement(table, data[i]), TRUE)]
             \o <<CommitCall(commitOk)>>
    ELSE [i \in 1..failAt |-> ExecuteCall(InsertStatement(table, data[i]), i < failAt)]

\* MySQLDatabaseInterface.insert
SqlInsert(table, data, failAt, commitOk) ==
    /\ DbSize + Len(data) <= MaxDb
    /\ LET cs == InsertCalls(table, data, failAt, commitOk)
           db == Driver(cs, pending, committed)
           raised == failAt > 0 \/ ~commitOk
           \* `row` is the loop variable: the row that was being executed, the
           \* last row if the commit raised, unbound if there was no row
           rowBound == Len(data) > 0
           row == IF failAt > 0 THEN data[failAt] ELSE data[Len(data)]
       IN  /\ calls' = cs
           /\ pending' = db.pending
           /\ committed' = db.committed
           /\ last' = [NoCall EXCEPT
                         !.op = "insert", !.table = table, !.rows = data,
                         !.failAt = failAt, !.commitOk = commitOk,
                         !.exc = IF ~raised THEN ""
                                 ELSE IF rowBound THEN "DatabaseError"
                                 ELSE "UnboundLocalError",
                         !.msg = IF raised /\ rowBound THEN InsertMessage(row, table)
                                 ELSE <<>>]
    /\ UNCHANGED <<py, textVars, gs>>

Insert ==
    \E table \in TableNames, data \in RowSeqs, commitOk \in BOOLEAN :
        \E failAt \in 0..Len(data) : SqlInsert(table, data, failAt, commitOk)

(***************************************************************************)
(* GoogleSpreadsheetInterface                                              *)
(***************************************************************************)
\* The remote service: the spreadsheets feed of an exact-title query, and
\* the worksheets feed of a spreadsheet.  An entry is its id.text, a URL.
SheetUrl(key) == <<"https://spreadsheets.google.com/feeds/spreadsheets", "/", key>>
WorksheetUrl(key, w) ==
    <<"https://spreadsheets.google.com/feeds/worksheets", "/", key, "/", "private", "/", "full", "/", w>>

Titles == {"Budget", "Log", "Plan", "Missing"}

GetSpreadsheetsFeed(title) ==
    CASE title = "Budget" -> <<SheetUrl("k1")>>
      [] title = "Log" -> <<SheetUrl("k2"), SheetUrl("k3")>>
      [] title = "Plan" -> <<SheetUrl("k4")>>
      [] OTHER -> <<>>

GetWorksheetsFeed(spreadsheet_id) ==
    CASE spreadsheet_id = <<"k1">> -> <<WorksheetUrl("k1", "od6")>>
      [] spreadsheet_id = <<"k2">> -> <<WorksheetUrl("k2", "od6"), WorksheetUrl("k2", "od7")>>
      [] spreadsheet_id = <<"k4">> ->
            <<WorksheetUrl("k4", "od6"), WorksheetUrl("k4", "od7"), WorksheetUrl("k4", "od4")>>
      [] OTHER -> <<WorksheetUrl("k3", "od6")>>

\* the sheet values construction is called with (the default is 1)
SheetValues == -4..4

\* text.rsplit("/", 1)[1]: what follows the last "/"
RSplitLast(s) ==
    LET i == CHOOSE k \in 1..Len(s) : s[k] = "/" /\ \A j \in (k + 1)..Len(s) : s[j] # "/"
    IN  SubSeq(s, i + 1, Len(s))

\* list[i] of Python: 0-based, a negative i counts from the end
InRange(lst, i) == i < Len(lst) /\ i >= 0 - Len(lst)
Index(lst, i) == IF i >= 0 THEN lst[i + 1] ELSE lst[Len(lst) + i + 1]

NoSheet == [constructed |-> FALSE, spreadsheet_id |-> <<>>, worksheet_id |-> <<>>]

\* GoogleSpreadsheetInterface.__init__
GoogleInit(title, sheet, loginOk) ==
    LET base == [NoCall EXCEPT !.op = "GoogleInit", !.title = title,
                               !.sheet = sheet, !.loginOk = loginOk]
        feed == GetSpreadsheetsFeed(title)
        spreadsheet_id == RSplitLast(Index(feed, 0))
        wfeed == GetWorksheetsFeed(spreadsheet_id)
        worksheet_id == RSplitLast(Index(wfeed, sheet))
        exc == IF ~loginOk THEN "BadAuthentication"
               ELSE IF ~InRange(feed, 0) THEN "IndexError"
               ELSE IF ~InRange(wfeed, sheet) THEN "IndexError"
               ELSE ""
    IN  /\ last' = [base EXCEPT !.exc = exc,
                                !.returned = IF exc = "" THEN "GoogleSpreadsheetInterface" ELSE ""]
        /\ gs' = IF exc = ""
                 THEN [constructed |-> TRUE, spreadsheet_id |-> spreadsheet_id,
                       worksheet_id |-> worksheet_id]
                 ELSE gs
        /\ UNCHANGED <<py, textVars, sqlVars>>

GoogleConstruct ==
    \E title \in Titles, sheet \in SheetValues, loginOk \in BOOLEAN :
        GoogleInit(title, sheet, loginOk)

\* GoogleSpreadsheetInterface.write: accepts the dataframe and does nothing
GoogleWrite ==
    /\ gs.constructed
    /\ \E data \in WriteData :
           last' = [NoCall EXCEPT !.op = "GoogleWrite", !.data = data, !.returned = "None"]
    /\ UNCHANGED <<py, textVars, sqlVars, gs>>

(***************************************************************************)
(* Specifications: one per adapter, and the factory with the adapter it    *)
(* returns.                                                                *)
(***************************************************************************)
Interpreters == {2, 3}

InitCommon ==
    /\ py \in Interpreters
    /\ made = NoAdapter
    /\ lastWrite = NoWrite
    /\ pending = <<>>
    /\ committed = <<>>
    /\ calls = <<>>
    /\ gs = NoSheet
    /\ last = NoCall

\* TextInterface.__init__: a caller constructed TextInterface( file )
InitText ==
    /\ InitCommon
    /\ \E file \in FileNames, initial \in InitialFiles :
           /\ text = PathAdapter(file)
           /\ fs = [f \in FileNames |-> IF f = file THEN initial ELSE NoFile]

InitOther ==
    /\ InitCommon
    /\ fs = [f \in FileNames |-> NoFile]
    /\ text = NoAdapter

NextText == TextRead \/ TextWrite
NextFactory == Factory \/ TextRead \/ TextWrite
NextSql == Execute \/ Read \/ Insert
NextGoogle == GoogleConstruct \/ GoogleWrite

SpecText == InitText /\ [][NextText]_vars
SpecFactory == InitOther /\ [][NextFactory]_vars
SpecSql == InitOther /\ [][NextSql]_vars
SpecGoogle == InitOther /\ [][NextGoogle]_vars

(***************************************************************************)
(* Properties                                                              *)
(***************************************************************************)
\* no field of the table contains the separator or a newline
FieldsClean(rows, sep) ==
    \A i \in 1..Len(rows) : \A j \in 1..Len(rows[i]) :
        ~Contains(rows[i][j], sep) /\ ~Contains(rows[i][j], <<"\n">>)

\* the read is made on the file, and with the separator, of the last write,
\* and that write was handed a non-empty table whose fields are clean
ReadAfterTableWrite ==
    /\ last.op = "TextRead"
    /\ lastWrite.done
    /\ lastWrite.file = last.file
    /\ lastWrite.sep = last.sep
    /\ lastWrite.data.kind = "list"
    /\ lastWrite.data.rows # <<>>
    /\ FieldsClean(lastWrite.data.rows, last.sep)
    /\ FieldsClean(lastWrite.data.rows, SuffixSeparator(last.file, last.sep))

\* C1: a table whose fields hold neither the separator nor a newline, written
\* with write(table, separator) and read back with read(separator) from the
\* same file, comes back equal to the table that was written.
C1_RoundTrip ==
    ReadAfterTableWrite => (last.exc = "" /\ last.result = lastWrite.data.rows)

\* the statements of rows 1..n of the last insert
InsertedStatements(n) == [i \in 1..n |-> InsertStatement(last.table, last.rows[i])]

\* C2 (as stated): when the execute of row k raises, insert raises
\* DatabaseError and exactly the first k-1 rows are committed.
C2_PrefixCommitted ==
    (last.op = "insert" /\ last.failAt >= 1) =>
        /\ last.exc = "DatabaseError"
        /\ Len(committed) >= last.failAt - 1
        /\ SubSeq(committed, Len(committed) - last.failAt + 2, Len(committed))
               = InsertedStatements(last.failAt - 1)

\* C2 (amended): when the execute of row k raises, insert raises
\* DatabaseError and issues no commit: nothing is added to what is committed,
\* and the statements of rows 1..k-1 are left in the open transaction.
C2_PrefixPending ==
    [][(last'.op = "insert" /\ last'.failAt >= 1) =>
            /\ last'.exc = "DatabaseError"
            /\ \A i \in 1..Len(calls') : calls'[i].call # "commit"
            /\ committed' = committed
            /\ pending' = pending \o [i \in 1..(last'.failAt - 1) |->
                                         InsertStatement(last'.table, last'.rows[i])]]_vars

C2_Witness ==
    /\ last.op = "insert"
    /\ last.failAt = 2
    /\ last.exc = "DatabaseError"
    /\ committed = <<>>
    /\ pending = InsertedStatements(1)

\* C3: an insert of N rows whose executes all succeed issues N INSERT
\* statements, one per row in input order, and then one commit, after the
\* last statement; no commit lies between two statements.
C3_StatementsThenOneCommit ==
    (last.op = "insert" /\ last.failAt = 0) =>
        /\ Len(calls) = Len(last.rows) + 1
        /\ \A i \in 1..Len(last.rows) :
               calls[i] = ExecuteCall(InsertStatement(last.table, last.rows[i]), TRUE)
        /\ calls[Len(calls)].call = "commit"

C3_Witness ==
    /\ last.op = "insert"
    /\ last.failAt = 0
    /\ last.exc = ""
    /\ Len(last.rows) = 2
    /\ last.rows[1] # last.rows[2]
    /\ Len(calls) = 3

\* the literal the claim describes: a number plain, anything else quoted with
\* its double quotes doubled and its backslashes escaped
ClaimedLiteral(item) ==
    IF item.t = "int" THEN Decimal(item.n)
    ELSE <<"\"">> \o Escaped(Str(item)) \o <<"\"">>

\* C4: in the statement of every row, a field that is a string or empty is
\* quoted with its double quotes doubled and its backslashes escaped, a
\* numeric field (0 included) is emitted plain, and the literals are joined
\* by commas in field order.
C4_Literals ==
    last.op = "insert" =>
        \A i \in 1..Len(calls) :
            calls[i].call = "execute" =>
                calls[i].stmt =
                    <<"INSERT INTO ">> \o last.table \o <<" VALUES ( ">>
                        \o Join([j \in 1..Len(last.rows[i]) |->
                                    ClaimedLiteral(last.rows[i][j])], <<",">>)
                        \o <<" )">>

\* C5: on a file whose name ends in .csv read splits every line on "," and
\* write joins the fields of every row with ",", whatever separator the
\* caller hands over; likewise the tab on a .tsv file.
C5_SuffixOverride ==
    \A suffix \in {<<DotCsv, Comma>>, <<DotTsv, Tab>>} :
        EndsWith(last.file, suffix[1]) =>
            /\ (last.op = "TextRead" /\ fs[last.file].exists) =>
                   (last.exc = "" /\ last.result = ReadRows(fs[last.file].content, suffix[2]))
            /\ (last.op = "TextWrite" /\ last.returned = "opened"
                    /\ last.data.kind = "list" /\ last.data.rows # <<>>) =>
                   fs[last.file].content = Render(last.data.rows, suffix[2])

\* C6: the factory called with the tag "csv" in any letter case and
\* file="data.csv" returns a text adapter bound to the path "data.csv".
C6_FactoryForwardsFile ==
    (last.op = "Factory" /\ Lower(last.tag) = <<"c", "s", "v">> /\ last.kwfile = DataCsv) =>
        /\ last.exc = ""
        /\ last.returned = "TextInterface"
        /\ made = PathAdapter(DataCsv)

\* the tags the factory constructs an adapter for
RecognizedTags ==
    {<<"g", "o", "o", "g", "l", "e">>, <<"e", "x", "c", "e", "l">>, <<"t", "e", "x", "t">>,
     <<"c", "s", "v">>, <<"m", "y", "s", "q", "l">>}

\* C7: for a tag that, lower-cased, is none of google, excel, text, csv and
\* mysql, the factory returns no adapter and raises nothing, whatever the
\* named parameters.
C7_FallThrough ==
    (last.op = "Factory" /\ Lower(last.tag) \notin RecognizedTags) =>
        /\ last.exc = ""
        /\ last.returned = "None"
        /\ made = NoAdapter

C7_Witness ==
    /\ last.op = "Factory"
    /\ last.tag = <<"S", "Q", "L", "i", "t", "e">>
    /\ last.kwfile = DataCsv
    /\ last.returned = "None"

\* C8: execute hands the statement to the driver once; when the driver call
\* succeeds one commit follows it; when it raises, execute raises
\* DatabaseError whose message contains the statement, and commits nothing.
C8_ExecuteProtocol ==
    last.op = "execute" =>
        /\ Cardinality({i \in 1..Len(calls) : calls[i].call = "execute"}) = 1
        /\ calls[1] = ExecuteCall(last.stmt, last.failAt = 0)
        /\ last.failAt = 0 =>
               (Len(calls) = 2 /\ calls[2].call = "commit")
        /\ last.failAt # 0 =>
               /\ Len(calls) = 1
               /\ last.exc = "DatabaseError"
               /\ Contains(last.msg, last.stmt)

C8_Witness ==
    /\ last.op = "execute"
    /\ last.failAt = 1
    /\ last.exc = "DatabaseError"
    /\ pending # <<>>

\* C9: a write that opened the file leaves nothing of what the file held:
\* the file holds what the call wrote when the call returns, and is empty
\* when the call raises after the open.
C9_Truncates ==
    (last.op = "TextWrite" /\ last.returned = "opened") =>
        fs[last.file] =
            File(IF last.exc # "" THEN <<>>
                 ELSE IF last.data.kind = "str" THEN last.data.s
                 ELSE Render(last.data.rows, SuffixSeparator(last.file, last.sep)))

C9_Witness ==
    /\ last.op = "TextWrite"
    /\ last.returned = "opened"
    /\ last.before = File(ContentTabs)
    /\ last.exc = ""
    /\ last.data = StrData(ContentAB)
    /\ fs[last.file] = File(ContentAB)

\* C10: construction selects the worksheet at the 1-based index sheet of the
\* worksheets feed, and fails when sheet is out of range or no spreadsheet
\* has the title.
C10_OneBasedSheet ==
    (last.op = "GoogleInit" /\ last.loginOk) =>
        LET feed == GetSpreadsheetsFeed(last.title)
        IN  IF feed = <<>> THEN last.exc # ""
            ELSE LET wfeed == GetWorksheetsFeed(RSplitLast(feed[1]))
                 IN  IF last.sheet \in 1..Len(wfeed)
                     THEN /\ last.exc = ""
                          /\ gs.constructed
                          /\ gs.worksheet_id = RSplitLast(wfeed[last.sheet])
                     ELSE last.exc # ""

====
